---------------------------- MODULE Spec2Model ----------------------------
(***************************************************************************)
(* A model of gauge's template registry (package template) and of the      *)
(* project initialisation that materialises a template (package            *)
(* projectInit), both in src/template/template.go.                         *)
(*                                                                         *)
(* Three specifications share the module:                                  *)
(*   SnapshotSpec  one in-memory registry snapshot under update calls      *)
(*   Spec          the persisted template.properties under the public      *)
(*                 entry points Update, Merge, Get, All, List and under    *)
(*                 upgrades of the tool                                    *)
(*   InitSpec      one run of FromTemplate, FromURL or FromZipFile         *)
(*                                                                         *)
(* Strings are TLA+ strings; Len, \o and SubSeq act on them as on          *)
(* sequences of characters.                                                *)
(***************************************************************************)
EXTENDS Integers, Sequences, FiniteSets, TLC

VARIABLES
    snap,           \* SnapshotSpec: the *templates value under test
    snapRet,        \* SnapshotSpec: the last update call and what it returned
    snapLast,       \* SnapshotSpec: per key, the value of its last successful update
    file,           \* the persisted template.properties
    toolVersion,    \* version.CurrentGaugeVersion of the running build
    ret,            \* Spec: the last public call and what it returned
    lastUpdate,     \* Spec: per key, the value of the last successful Update
    upgraded,       \* Spec: the tool was upgraded since the file was last written
    pc,             \* InitSpec: position in the entry point
    call,           \* InitSpec: the entry point and its argument
    allowInsecure,  \* InitSpec: config.AllowInsecureDownload()
    fs,             \* InitSpec: the file system
    start,          \* InitSpec: the file system and the config when the call started
    loc,            \* InitSpec: the locals of the running functions
    trace           \* InitSpec: the steps performed so far

vars == <<snap, snapRet, snapLast, file, toolVersion, ret, lastUpdate, upgraded,
          pc, call, allowInsecure, fs, start, loc, trace>>

----------------------------------------------------------------------------
(* Strings                                                                 *)

Char(s, i) == SubSeq(s, i, i)

HasPrefix(s, p) == Len(s) >= Len(p) /\ SubSeq(s, 1, Len(p)) = p

\* strings.Index for a one-character separator: the first position, 0 if none
RECURSIVE IndexFrom(_, _, _)
IndexFrom(s, c, i) ==
    IF i > Len(s) THEN 0
    ELSE IF Char(s, i) = c THEN i
    ELSE IndexFrom(s, c, i + 1)

Index(s, c) == IndexFrom(s, c, 1)

\* strings.LastIndex for a one-character separator: the last position, 0 if none
RECURSIVE LastIndexFrom(_, _, _)
LastIndexFrom(s, c, i) ==
    IF i < 1 THEN 0
    ELSE IF Char(s, i) = c THEN i
    ELSE LastIndexFrom(s, c, i - 1)

LastIndex(s, c) == LastIndexFrom(s, c, Len(s))

LowerCase == "abcdefghijklmnopqrstuvwxyz"
UpperCase == "ABCDEFGHIJKLMNOPQRSTUVWXYZ"
DigitChars == "0123456789"

CharsOf(s) == {Char(s, i) : i \in 1..Len(s)}

UpperLetters == CharsOf(UpperCase)
Letters == CharsOf(LowerCase) \cup UpperLetters
Digits == CharsOf(DigitChars)
HexDigits == Digits \cup CharsOf("abcdefABCDEF")

ToLowerChar(c) ==
    IF c \in UpperLetters THEN Char(LowerCase, Index(UpperCase, c)) ELSE c

RECURSIVE ToLower(_)
ToLower(s) ==
    IF s = "" THEN ""
    ELSE ToLowerChar(Char(s, 1)) \o ToLower(SubSeq(s, 2, Len(s)))

\* the printable ASCII characters in byte order (Go compares strings bytewise):
\* 32..95, then 97..126
AsciiLow ==
    " !\"#$%&'()*+,-./0123456789:;<=>?@ABCDEFGHIJKLMNOPQRSTUVWXYZ[\\]^_"
AsciiHigh == "abcdefghijklmnopqrstuvwxyz{|}~"

ByteOf ==
    [c \in CharsOf(AsciiLow) \cup CharsOf(AsciiHigh) |->
        IF Index(AsciiLow, c) > 0 THEN Index(AsciiLow, c) + 31
        ELSE Index(AsciiHigh, c) + 96]

Byte(c) == ByteOf[c]

RECURSIVE StringLess(_, _)
StringLess(a, b) ==
    IF b = "" THEN FALSE
    ELSE IF a = "" THEN TRUE
    ELSE IF Char(a, 1) # Char(b, 1) THEN Byte(Char(a, 1)) < Byte(Char(b, 1))
    ELSE StringLess(SubSeq(a, 2, Len(a)), SubSeq(b, 2, Len(b)))

----------------------------------------------------------------------------
(* net/url.ParseRequestURI, as called on template locations                *)

\* after its first character a scheme may hold digits, "+", "-" and "."
SchemeMarks == Digits \cup {"+", "-", "."}

RECURSIVE getSchemeAt(_, _)
getSchemeAt(rawURL, i) ==
    IF i > Len(rawURL) THEN [scheme |-> "", rest |-> rawURL, err |-> FALSE]
    ELSE LET c == Char(rawURL, i) IN
         IF c \in Letters THEN getSchemeAt(rawURL, i + 1)
         ELSE IF c \in SchemeMarks
         THEN IF i = 1 THEN [scheme |-> "", rest |-> rawURL, err |-> FALSE]
              ELSE getSchemeAt(rawURL, i + 1)
         ELSE IF c = ":"
         THEN IF i = 1 THEN [scheme |-> "", rest |-> "", err |-> TRUE]
              ELSE [scheme |-> SubSeq(rawURL, 1, i - 1),
                    rest |-> SubSeq(rawURL, i + 1, Len(rawURL)),
                    err |-> FALSE]
         ELSE [scheme |-> "", rest |-> rawURL, err |-> FALSE]

getScheme(rawURL) == getSchemeAt(rawURL, 1)

\* unescape's check of the %-escapes of s: each % is followed by two hex digits
EscapesOK(s) ==
    \A i \in 1..Len(s) :
        Char(s, i) = "%" =>
            /\ i + 2 <= Len(s)
            /\ Char(s, i + 1) \in HexDigits
            /\ Char(s, i + 2) \in HexDigits

\* shouldEscape(c, encodeHost) is false for these characters
HostChars ==
    Letters \cup Digits \cup CharsOf("!$&'()*+,;=:[]<>\"-_.~")

HighHexDigits == CharsOf("89abcdefABCDEF")

UserinfoChars == Letters \cup Digits \cup CharsOf("-._:~!$&'()*+,;=%@")

\* in a host, %-escapes are for non-ASCII bytes only, and %25 for the zone's %
HostEscapesOK(s) ==
    \A i \in 1..Len(s) :
        Char(s, i) = "%" =>
            /\ i + 2 <= Len(s)
            /\ Char(s, i + 1) \in HexDigits
            /\ Char(s, i + 2) \in HexDigits
            /\ \/ Char(s, i + 1) \in HighHexDigits
               \/ SubSeq(s, i, i + 2) = "%25"

validOptionalPort(port) ==
    \/ port = ""
    \/ /\ Char(port, 1) = ":"
       /\ \A i \in 2..Len(port) : Char(port, i) \in Digits

parseHostOK(host) ==
    /\ IF HasPrefix(host, "[")
       THEN /\ LastIndex(host, "]") > 0
            /\ validOptionalPort(SubSeq(host, LastIndex(host, "]") + 1, Len(host)))
       ELSE LastIndex(host, ":") > 0 =>
                validOptionalPort(SubSeq(host, LastIndex(host, ":"), Len(host)))
    /\ HostEscapesOK(host)
    /\ \A i \in 1..Len(host) : Char(host, i) = "%" \/ Char(host, i) \in HostChars

validUserinfo(s) ==
    \A i \in 1..Len(s) :
        Char(s, i) \in UserinfoChars

parseAuthorityOK(authority) ==
    LET i == LastIndex(authority, "@") IN
    IF i = 0 THEN parseHostOK(authority)
    ELSE /\ parseHostOK(SubSeq(authority, i + 1, Len(authority)))
         /\ validUserinfo(SubSeq(authority, 1, i - 1))

\* url.parse(rawURL, viaRequest = true): [ok, Scheme, Host]
ParseRequestURI(rawURL) ==
    LET bad == [ok |-> FALSE, Scheme |-> "", Host |-> ""] IN
    IF rawURL = "" THEN bad
    ELSE IF rawURL = "*" THEN [ok |-> TRUE, Scheme |-> "", Host |-> ""]
    ELSE LET s == getScheme(rawURL) IN
    IF s.err THEN bad
    ELSE LET scheme == ToLower(s.scheme)
             q == Index(s.rest, "?")
             rest == IF q = 0 THEN s.rest ELSE SubSeq(s.rest, 1, q - 1)
         IN
         IF ~HasPrefix(rest, "/")
         THEN IF scheme # ""
              THEN [ok |-> TRUE, Scheme |-> scheme, Host |-> ""]  \* url.Opaque
              ELSE bad                       \* "invalid URI for request"
         ELSE IF scheme # "" /\ HasPrefix(rest, "//")
         THEN LET after == SubSeq(rest, 3, Len(rest))
                  i == Index(after, "/")
                  authority == IF i = 0 THEN after ELSE SubSeq(after, 1, i - 1)
                  path == IF i = 0 THEN "" ELSE SubSeq(after, i, Len(after))
                  at == LastIndex(authority, "@")
              IN  IF parseAuthorityOK(authority) /\ EscapesOK(path)
                  THEN [ok |-> TRUE, Scheme |-> scheme,
                        Host |-> SubSeq(authority, at + 1, Len(authority))]
                  ELSE bad
         ELSE IF EscapesOK(rest)
              THEN [ok |-> TRUE, Scheme |-> scheme, Host |-> ""]
              ELSE bad

----------------------------------------------------------------------------
(* Bounds and inputs                                                       *)

\* the builds of the tool are 1..MaxVersion; the source is build MaxVersion
MaxVersion == 2

Builds == 1..MaxVersion

\* keys and locations handed to update on one snapshot
SnapKeys == {"java", "go", "aa"}
SnapValues ==
    {"https://example.com/t.zip", "http://u@h:80/a%20b", "not-a-url", "/opt/t.zip",
     "file:t.zip", ""}

\* names and locations handed to the public entry points
UpdateNames == {"java", "ts"}
UpdateValues == {"https://example.com/t.zip", "not-a-url", "/opt/t.zip"}
GetNames == {"java", "pyhton", "qq", "tsjsjarupydo"}

\* closestmatch: the substring size and the number of names asked for
SubstringSize == 2
MaxMatches == 5

----------------------------------------------------------------------------
(* package template: the registry snapshot                                 *)

nil == "nil"

NewProperty(k, v, d) == [Key |-> k, Value |-> v, Description |-> d]

Description(k) == "Template download information for gauge " \o k \o " projects"

RECURSIVE InsertSorted(_, _)
InsertSorted(s, x) ==
    IF s = <<>> THEN <<x>>
    ELSE IF StringLess(x, Head(s)) THEN <<x>> \o s
    ELSE <<Head(s)>> \o InsertSorted(Tail(s), x)

\* sort.Strings
RECURSIVE SortStrings(_)
SortStrings(s) ==
    IF s = <<>> THEN <<>> ELSE InsertSorted(SortStrings(Tail(s)), Head(s))

\* update that leaves the location of a key the registry already has
updateKeepsExisting(t, k, v, validate) ==
    IF validate /\ ~ParseRequestURI(v).ok
    THEN [err |-> "InvalidTemplateLocation", t |-> t]
    ELSE IF k \in DOMAIN t.t THEN [err |-> nil, t |-> t]
    ELSE [err |-> nil,
          t |-> [t |-> t.t @@ (k :> NewProperty(k, v, Description(k))),
                 names |-> SortStrings(Append(t.names, k))]]

\* update without its closing sort.Strings(t.names)
updateUnsorted(t, k, v, validate) ==
    IF validate /\ ~ParseRequestURI(v).ok
    THEN [err |-> "InvalidTemplateLocation", t |-> t]
    ELSE IF k \in DOMAIN t.t
    THEN [err |-> nil, t |-> [t EXCEPT !.t[k].Value = v]]
    ELSE [err |-> nil,
          t |-> [t |-> t.t @@ (k :> NewProperty(k, v, Description(k))),
                 names |-> Append(t.names, k)]]

\* (t *templates) update(k, v, validate): the error and t after the call
update(t, k, v, validate) ==
    IF validate /\ ~ParseRequestURI(v).ok
    THEN [err |-> "InvalidTemplateLocation", t |-> t]
    ELSE LET t1 == IF k \in DOMAIN t.t
                   THEN [t EXCEPT !.t[k].Value = v]
                   ELSE [t |-> t.t @@ (k :> NewProperty(k, v, Description(k))),
                         names |-> Append(t.names, k)]
         IN  [err |-> nil, t |-> [t1 EXCEPT !.names = SortStrings(t1.names)]]

\* a map's keys in the order one range over it visits them
RECURSIVE RangeOrder(_)
RangeOrder(S) ==
    IF S = {} THEN <<>>
    ELSE LET k == CHOOSE x \in S : TRUE IN <<k>> \o RangeOrder(S \ {k})

\* strings.Join
RECURSIVE Join(_, _)
Join(elems, sep) ==
    IF elems = <<>> THEN ""
    ELSE IF Len(elems) = 1 THEN elems[1]
    ELSE elems[1] \o sep \o Join(Tail(elems), sep)

\* closestmatch.splitWord: the substrings of the size, or the word itself when
\* it is shorter
splitWord(word) ==
    IF Len(word) < SubstringSize THEN {word}
    ELSE {SubSeq(word, i, i + SubstringSize - 1) :
            i \in 1..(Len(word) - SubstringSize + 1)}

\* closestmatch.New: the ids of the names that hold the substring
SubstringToID(names, substring) ==
    {i \in 1..Len(names) : substring \in splitWord(ToLower(names[i]))}

\* closestmatch.match: what the substrings of the search word add up to for
\* the name with the id
RECURSIVE matchScore(_, _, _)
matchScore(names, substrings, id) ==
    IF substrings = {} THEN 0
    ELSE LET substring == CHOOSE x \in substrings : TRUE
             ids == SubstringToID(names, substring)
         IN  (IF id \in ids
              THEN 1 + (1000 \div Len(names[id])) + (1000 \div Cardinality(ids))
              ELSE 0)
             + matchScore(names, substrings \ {substring}, id)

\* closestmatch.rankByWordCount: the pairs <<id, score>> of the names that
\* share a substring with the search word
rankByWordCount(names, searchWord) ==
    {p \in {<<i, matchScore(names, splitWord(searchWord), i)>> : i \in 1..Len(names)} :
        p[2] > 0}

\* the first max pairs of a ranking: the sort is by score and unstable over a
\* map's pairs, so pairs of equal score come in any order
FirstOf(pairs, max) ==
    {S \in SUBSET pairs :
        /\ Cardinality(S) = (IF Cardinality(pairs) < max THEN Cardinality(pairs) ELSE max)
        /\ \A a \in S, b \in pairs \ S : a[2] >= b[2]}

\* ClosestN that returns every ranked name
ClosestNUncut(names, searchWord, max) ==
    {{p[1] : p \in rankByWordCount(names, searchWord)}}

\* closestmatch.ClosestN: the sets of ids it may return
ClosestN(names, searchWord, max) ==
    {{p[1] : p \in S} : S \in FirstOf(rankByWordCount(names, searchWord), max)}

\* (t *templates) closestMatch(k): the lists it may return
closestMatch(t, k) ==
    {SortStrings(RangeOrder({t.names[i] : i \in S} \ {""})) :
        S \in ClosestN(t.names, k, MaxMatches)}

\* the text of get's error
notFound(k, matches) ==
    IF Len(matches) > 0
    THEN "cannot find a Gauge template '" \o k
            \o "'.\nThe most similar template names are\n\n\t"
            \o Join(matches, "\n\t")
    ELSE "cannot find a Gauge template '" \o k \o "'"

\* (t *templates) get(k): the value, or the not-found error with the lists of
\* similar names it may carry
get(t, k) ==
    IF k \in DOMAIN t.t
    THEN [value |-> t.t[k].Value, err |-> nil, matches |-> {<<>>}]
    ELSE [value |-> "", err |-> "TemplateNotFound", matches |-> closestMatch(t, k)]

getKeys(prop) == SortStrings(RangeOrder(DOMAIN prop))

\* the release a build's default locations point at: the source's is "latest"
ReleaseTag(build) ==
    IF build = MaxVersion THEN "latest" ELSE "v" \o Char(DigitChars, build + 1)

getProperty(repoName, templateName, build) ==
    NewProperty(templateName,
                "https://github.com/getgauge/" \o repoName \o "/releases/"
                    \o ReleaseTag(build) \o "/download/" \o templateName \o ".zip",
                Description(templateName))

\* the built-in names of a build: the source's six; build 1 predates ts
DefaultNames(build) ==
    {"dotnet", "java", "js", "python", "ruby"}
        \cup (IF build = 1 THEN {} ELSE {"ts"})

\* defaults() of each build
DefaultsOf ==
    [build \in Builds |->
        LET prop == [k \in DefaultNames(build) |->
                        getProperty("template-" \o k, k, build)]
        IN  [t |-> prop, names |-> getKeys(prop)]]

defaults(build) == DefaultsOf[build]

----------------------------------------------------------------------------
(* The persisted template.properties                                       *)

NoHeader == [ok |-> FALSE, v |-> 0]

Absent == [exists |-> FALSE, loadable |-> FALSE, header |-> NoHeader, blocks |-> <<>>]

\* (t *templates) String(): the version header, then one block per name
String(t, build) ==
    [header |-> [ok |-> TRUE, v |-> build],
     blocks |-> [i \in 1..Len(t.names) |-> t.t[t.names[i]]]]

\* config.Write(s, templateProperties)
Write(s) ==
    [exists |-> TRUE, loadable |-> TRUE, header |-> s.header, blocks |-> s.blocks]

\* common.GetGaugeConfigurationFor(templateProperties): key -> value, later
\* blocks of a key win
RECURSIVE LoadBlocks(_)
LoadBlocks(blocks) ==
    IF blocks = <<>> THEN <<>>
    ELSE LET n == Len(blocks)
             b == blocks[n]
             before == LoadBlocks(SubSeq(blocks, 1, n - 1))
         IN  (b.Key :> b.Value) @@ before

GetGaugeConfigurationFor(f) ==
    IF f.exists /\ f.loadable
    THEN [err |-> nil, configs |-> LoadBlocks(f.blocks)]
    ELSE [err |-> "IOFailure", configs |-> <<>>]

\* config.GaugeVersionInPropertiesFile(templateProperties)
GaugeVersionInPropertiesFile(f) ==
    IF f.exists /\ f.header.ok
    THEN [err |-> nil, v |-> f.header.v]
    ELSE [err |-> "IOFailure", v |-> 0]

\* version.CompareVersions(v, current, version.LesserThanFunc)
CompareVersionsLesser(v, current) == v < current

RECURSIVE updateAll(_, _, _)
updateAll(t, configs, keys) ==
    IF keys = <<>> THEN [t |-> t, err |-> nil]
    ELSE LET u == update(t, Head(keys), configs[Head(keys)], FALSE) IN
         IF u.err # nil THEN [t |-> t, err |-> u.err]
         ELSE updateAll(u.t, configs, Tail(keys))

\* mergeTemplates that lets a built-in location win over the persisted one
mergeTemplatesDefaultsWin(f, build) ==
    LET t == defaults(build)
        c == GetGaugeConfigurationFor(f)
        own == {k \in DOMAIN c.configs : k \notin DOMAIN t.t}
    IN  IF c.err # nil THEN [t |-> t, err |-> nil]
        ELSE updateAll(t, c.configs, RangeOrder(own))

\* mergeTemplates that gives up on the defaults when the file cannot be loaded
mergeTemplatesNoFallback(f, build) ==
    LET t == defaults(build)
        c == GetGaugeConfigurationFor(f)
    IN  IF c.err # nil THEN [t |-> [t |-> <<>>, names |-> <<>>], err |-> nil]
        ELSE updateAll(t, c.configs, RangeOrder(DOMAIN c.configs))

\* mergeTemplates() of the build, against file f
mergeTemplates(f, build) ==
    LET t == defaults(build)
        c == GetGaugeConfigurationFor(f)
    IN  IF c.err # nil THEN [t |-> t, err |-> nil]
        ELSE updateAll(t, c.configs, RangeOrder(DOMAIN c.configs))

\* config.Formatter.Format: one row per property
Format(all, machineReadable) ==
    Join([i \in 1..Len(all) |->
            IF machineReadable
            THEN "{\"key\":\"" \o all[i].Key \o "\",\"value\":\"" \o all[i].Value \o "\"}"
            ELSE all[i].Key \o "\t" \o all[i].Value],
         "\n")

----------------------------------------------------------------------------
(* SnapshotSpec: update calls on one snapshot                              *)

NoCall == [entry |-> "none", arg |-> ""]
NoLoc == [templateURL |-> "", tempDir |-> "", archive |-> <<>>,
          unzippedTemplate |-> "",
          templateDir |-> "", filesAdded |-> <<>>,
          metadata |-> [PostInstallCmd |-> "", PostInstallMsg |-> ""],
          post |-> "none", err |-> nil, fatal |-> nil, runner |-> "none"]
NoFiles == [files |-> <<>>, dirs |-> {}]
NoUpdates == [k \in UpdateNames |-> [set |-> FALSE, v |-> ""]]
NoRet == [op |-> "none", name |-> "", value |-> "", err |-> nil, out |-> "",
          matches |-> <<>>, msg |-> "", before |-> Absent]

RegistryIdle ==
    /\ file = Absent /\ toolVersion = MaxVersion /\ ret = NoRet
    /\ lastUpdate = NoUpdates /\ upgraded = FALSE

NoSnapshot == [t |-> <<>>, names |-> <<>>]
NoSnapLast == [k \in SnapKeys |-> [v |-> "", set |-> FALSE]]

SnapshotIdle ==
    /\ snap = NoSnapshot
    /\ snapRet = [k |-> "", v |-> "", validate |-> FALSE, err |-> nil,
                  before |-> NoSnapshot]
    /\ snapLast = NoSnapLast

InitIdle ==
    /\ pc = "idle" /\ call = NoCall /\ allowInsecure = FALSE
    /\ fs = NoFiles /\ start = [fs |-> NoFiles, file |-> Absent]
    /\ loc = NoLoc /\ trace = <<>>

registryVars == <<file, toolVersion, ret, lastUpdate, upgraded>>
snapVars == <<snap, snapRet, snapLast>>
initVars == <<pc, call, allowInsecure, fs, start, loc, trace>>

SnapshotInit ==
    /\ snap = defaults(MaxVersion)
    /\ snapRet = [k |-> "", v |-> "", validate |-> FALSE, err |-> nil,
                  before |-> defaults(MaxVersion)]
    /\ snapLast = NoSnapLast
    /\ RegistryIdle /\ InitIdle

\* one call t.update(k, v, validate) on the snapshot
UpdateCall(k, v, validate) ==
    \E u \in {update(snap, k, v, validate)} :
    /\ snap' = u.t
    /\ snapRet' = [k |-> k, v |-> v, validate |-> validate, err |-> u.err,
                   before |-> snap]
    /\ snapLast' = IF u.err = nil
                   THEN [snapLast EXCEPT ![k] = [v |-> v, set |-> TRUE]]
                   ELSE snapLast
    /\ UNCHANGED <<registryVars, initVars>>

SnapshotNext ==
    \E k \in SnapKeys, v \in SnapValues, validate \in BOOLEAN :
        UpdateCall(k, v, validate)

SnapshotSpec == SnapshotInit /\ [][SnapshotNext]_vars

----------------------------------------------------------------------------
(* Spec: the public entry points of package template                       *)

\* the files the tool leaves behind: none, what a build wrote (with or without
\* a user's location for java), one whose version header does not parse, and
\* one the properties loader rejects
InitialFiles ==
    {Absent}
    \cup {Write(String(defaults(b), b)) : b \in Builds}
    \cup {Write(String(update(defaults(b), "java", "https://example.com/j.zip", FALSE).t, b)) :
            b \in Builds}
    \cup {[Write(String(defaults(1), 1)) EXCEPT !.header = NoHeader]}
    \cup {[exists |-> TRUE, loadable |-> FALSE, header |-> NoHeader, blocks |-> <<>>]}

Init ==
    /\ file \in InitialFiles
    /\ toolVersion \in Builds
    /\ ret = NoRet
    /\ lastUpdate = NoUpdates
    /\ upgraded = FALSE
    /\ SnapshotIdle /\ InitIdle

\* (t *templates) write()
write(t, build) == Write(String(t, build))

\* Update that persists the merged snapshot before the location is validated
UpdateWritesFirst(name, value) ==
    \E m \in {mergeTemplates(file, toolVersion)} :
    \E u \in {update(m.t, name, value, TRUE)} :
    \E r \in {[op |-> "Update", name |-> name, value |-> value, err |-> nil,
               out |-> "", matches |-> <<>>, msg |-> "", before |-> file]} :
        IF m.err # nil
        THEN /\ ret' = [r EXCEPT !.err = m.err]
             /\ UNCHANGED <<file, lastUpdate>>
        ELSE IF u.err # nil
        THEN /\ file' = write(m.t, toolVersion)
             /\ ret' = [r EXCEPT !.err = u.err]
             /\ UNCHANGED lastUpdate
        ELSE /\ file' = write(u.t, toolVersion)
             /\ lastUpdate' = [lastUpdate EXCEPT ![name] = [set |-> TRUE, v |-> value]]
             /\ ret' = r

Update(name, value) ==
    \E m \in {mergeTemplates(file, toolVersion)} :
    \E u \in {update(m.t, name, value, TRUE)} :
    \E r \in {[op |-> "Update", name |-> name, value |-> value, err |-> nil,
               out |-> "", matches |-> <<>>, msg |-> "", before |-> file]} :
        IF m.err # nil
        THEN /\ ret' = [r EXCEPT !.err = m.err]
             /\ UNCHANGED <<file, lastUpdate>>
        ELSE IF u.err # nil
        THEN /\ ret' = [r EXCEPT !.err = u.err]
             /\ UNCHANGED <<file, lastUpdate>>
        ELSE /\ file' = write(u.t, toolVersion)
             /\ lastUpdate' = [lastUpdate EXCEPT ![name] = [set |-> TRUE, v |-> value]]
             /\ ret' = r

\* Merge without its version gate
MergeAlways ==
    \E m \in {mergeTemplates(file, toolVersion)} :
    \E r \in {[op |-> "Merge", name |-> "", value |-> "", err |-> nil,
               out |-> "", matches |-> <<>>, msg |-> "", before |-> file]} :
        IF m.err # nil
        THEN ret' = [r EXCEPT !.err = m.err] /\ UNCHANGED file
        ELSE file' = write(m.t, toolVersion) /\ ret' = r

Merge ==
    \E v \in {GaugeVersionInPropertiesFile(file)} :
    \E m \in {mergeTemplates(file, toolVersion)} :
    \E r \in {[op |-> "Merge", name |-> "", value |-> "", err |-> nil,
               out |-> "", matches |-> <<>>, msg |-> "", before |-> file]} :
        IF v.err # nil \/ CompareVersionsLesser(v.v, toolVersion)
        THEN IF m.err # nil
             THEN ret' = [r EXCEPT !.err = m.err] /\ UNCHANGED file
             ELSE file' = write(m.t, toolVersion) /\ ret' = r
        ELSE ret' = r /\ UNCHANGED file

\* Get that persists the merged snapshot it looked the name up in
GetPersistsMerged(name) ==
    \E mp \in {mergeTemplates(file, toolVersion)} :
    \E g \in {get(mp.t, name)} :
    \E r \in {[op |-> "Get", name |-> name, value |-> "", err |-> nil,
               out |-> "", matches |-> <<>>, msg |-> "", before |-> file]} :
        IF mp.err # nil THEN ret' = [r EXCEPT !.err = mp.err] /\ UNCHANGED file
        ELSE /\ file' = write(mp.t, toolVersion)
             /\ \E matches \in g.matches :
                ret' = [r EXCEPT !.err = g.err, !.out = g.value,
                                 !.matches = matches,
                                 !.msg = IF g.err = nil THEN ""
                                         ELSE notFound(name, matches)]

Get(name) ==
    \E mp \in {mergeTemplates(file, toolVersion)} :
    \E g \in {get(mp.t, name)} :
    \E r \in {[op |-> "Get", name |-> name, value |-> "", err |-> nil,
               out |-> "", matches |-> <<>>, msg |-> "", before |-> file]} :
        /\ UNCHANGED file
        /\ IF mp.err # nil THEN ret' = [r EXCEPT !.err = mp.err]
           ELSE \E matches \in g.matches :
                ret' = [r EXCEPT !.err = g.err, !.out = g.value,
                                 !.matches = matches,
                                 !.msg = IF g.err = nil THEN ""
                                         ELSE notFound(name, matches)]

All ==
    \E t \in {mergeTemplates(file, toolVersion)} :
    \E r \in {[op |-> "All", name |-> "", value |-> "", err |-> nil,
               out |-> "", matches |-> <<>>, msg |-> "", before |-> file]} :
        /\ UNCHANGED file
        /\ IF t.err # nil THEN ret' = [r EXCEPT !.err = t.err]
           ELSE ret' = [r EXCEPT !.out = Join(t.t.names, "\n")]

List(machineReadable) ==
    \E t \in {mergeTemplates(file, toolVersion)} :
    \E order \in {RangeOrder(DOMAIN t.t.t)} :
    \E all \in {[i \in 1..Len(order) |-> t.t.t[order[i]]]} :
    \E r \in {[op |-> "List", name |-> "", value |-> "", err |-> nil,
               out |-> "", matches |-> <<>>, msg |-> "", before |-> file]} :
        /\ UNCHANGED file
        /\ IF t.err # nil THEN ret' = [r EXCEPT !.err = t.err]
           ELSE ret' = [r EXCEPT !.out = Format(all, machineReadable)]

\* the user installs the next build of the tool
Upgrade ==
    /\ toolVersion < MaxVersion
    /\ toolVersion' = toolVersion + 1
    /\ upgraded' = TRUE
    /\ ret' = [NoRet EXCEPT !.op = "Upgrade", !.before = file]
    /\ UNCHANGED <<file, lastUpdate>>

UpdateStep ==
    /\ \E name \in UpdateNames, value \in UpdateValues : Update(name, value)
    /\ UNCHANGED <<toolVersion, upgraded, snapVars, initVars>>

MergeStep ==
    /\ Merge
    /\ UNCHANGED <<toolVersion, upgraded, lastUpdate, snapVars, initVars>>

GetStep ==
    /\ \E name \in GetNames : Get(name)
    /\ UNCHANGED <<toolVersion, upgraded, lastUpdate, snapVars, initVars>>

AllStep ==
    /\ All
    /\ UNCHANGED <<toolVersion, upgraded, lastUpdate, snapVars, initVars>>

ListStep ==
    /\ \E machineReadable \in BOOLEAN : List(machineReadable)
    /\ UNCHANGED <<toolVersion, upgraded, lastUpdate, snapVars, initVars>>

UpgradeStep ==
    /\ Upgrade
    /\ UNCHANGED <<snapVars, initVars>>

Next ==
    \/ UpdateStep
    \/ MergeStep
    \/ GetStep
    \/ AllStep
    \/ ListStep
    \/ UpgradeStep

Spec == Init /\ [][Next]_vars

----------------------------------------------------------------------------
(* package projectInit: the file system and the collaborators              *)

gitignoreFileName == ".gitignore"
metadataFileName == "metadata.json"
https == "https"
\* common.ManifestFile
ManifestFile == "manifest.json"

\* os.Getwd() of the call, and the directory common.GetTempDir() makes
ProjectRoot == "/work"
TempDir == "/tmp/gauge_temp"

\* filepath.Join of two elements: empty elements are skipped
filepathJoin(a, b) ==
    IF a = "" THEN b ELSE IF b = "" THEN a ELSE a \o "/" \o b

\* a relative path names a file of the working directory
Abs(path) == IF HasPrefix(path, "/") THEN path ELSE filepathJoin(ProjectRoot, path)

Under(path, dir) == HasPrefix(path, dir \o "/")

IsDir(f, dir) ==
    \/ dir \in f.dirs
    \/ \E q \in (DOMAIN f.files) \cup f.dirs : Under(q, dir)

IsFile(f, path) == path \in DOMAIN f.files

\* common.FileExists: os.Stat finds the path
FileExists(f, path) ==
    /\ path # ""
    /\ (IsFile(f, Abs(path)) \/ IsDir(f, Abs(path)))

\* common.ReadFileContents
ReadFileContents(f, path) ==
    IF path # "" /\ IsFile(f, Abs(path))
    THEN [err |-> nil, contents |-> f.files[Abs(path)]]
    ELSE [err |-> "IOFailure", contents |-> ""]

\* AppendToFile that writes the other way: destFile's contents go to the end
\* of srcFile
AppendToFileReversed(f, srcFile, destFile) ==
    LET r == ReadFileContents(f, destFile) IN
    IF srcFile = "" \/ ~IsFile(f, Abs(srcFile)) \/ r.err # nil
    THEN [err |-> "IOFailure", fs |-> f]
    ELSE [err |-> nil,
          fs |-> [f EXCEPT !.files[Abs(srcFile)] = @ \o r.contents]]

\* common.AppendToFile(srcFile, destFile): destFile is opened for appending,
\* without being created, and the contents of srcFile are written to its end
AppendToFile(f, srcFile, destFile) ==
    LET r == ReadFileContents(f, srcFile) IN
    IF destFile = "" \/ ~IsFile(f, Abs(destFile)) \/ r.err # nil
    THEN [err |-> "IOFailure", fs |-> f]
    ELSE [err |-> nil,
          fs |-> [f EXCEPT !.files[Abs(destFile)] = @ \o r.contents]]

\* util.Remove: os.RemoveAll
Remove(f, path) ==
    [files |-> [q \in {x \in DOMAIN f.files : x # path /\ ~Under(x, path)} |->
                    f.files[q]],
     dirs |-> {d \in f.dirs : d # path /\ ~Under(d, path)}]

\* strings.Split(file, string(filepath.Separator))[0]
FirstSegment(path) ==
    IF Index(path, "/") = 0 THEN path ELSE SubSeq(path, 1, Index(path, "/") - 1)

RestSegments(path) ==
    IF Index(path, "/") = 0 THEN "" ELSE SubSeq(path, Index(path, "/") + 1, Len(path))

\* filepath.Walk visits a directory before its entries, and the entries of a
\* directory in lexical order
RECURSIVE WalkLess(_, _)
WalkLess(p, q) ==
    IF p = q THEN FALSE
    ELSE IF p = "" THEN TRUE
    ELSE IF q = "" THEN FALSE
    ELSE IF FirstSegment(p) = FirstSegment(q)
    THEN WalkLess(RestSegments(p), RestSegments(q))
    ELSE StringLess(FirstSegment(p), FirstSegment(q))

RECURSIVE WalkOrder(_)
WalkOrder(S) ==
    IF S = {} THEN <<>>
    ELSE LET first == CHOOSE x \in S : \A y \in S : ~WalkLess(y, x)
         IN  <<first>> \o WalkOrder(S \ {first})

\* the directories at and below root
DirsBelow(f, root) ==
    {root} \cup {d \in f.dirs : Under(d, root)}
        \cup UNION {{SubSeq(q, 1, i - 1) :
                        i \in {j \in (Len(root) + 2)..Len(q) : Char(q, j) = "/"}} :
                    q \in {x \in DOMAIN f.files : Under(x, root)}}

\* the files below dir, relative to it, in the order Walk visits them
FilesBelow(f, dir) ==
    WalkOrder({SubSeq(q, Len(dir) + 2, Len(q)) : q \in {x \in DOMAIN f.files : Under(x, dir)}})

\* common.MirrorDir(src, dst) when it copies the first n files it visits: every
\* file below src is written to the same relative path below dst; the relative
\* paths come back, with an error when Walk failed or a copy did
MirrorDir(f, src, dst, n) ==
    IF src = "" \/ ~IsDir(f, src)
    THEN [err |-> "IOFailure", filesAdded |-> <<>>, fs |-> f]
    ELSE LET all == FilesBelow(f, src)
             rels == SubSeq(all, 1, n)
             copied == {filepathJoin(dst, rels[i]) : i \in 1..Len(rels)}
             source(q) == filepathJoin(src, SubSeq(q, Len(dst) + 2, Len(q)))
         IN  [err |-> IF n < Len(all) THEN "IOFailure" ELSE nil,
              filesAdded |-> rels,
              fs |-> [f EXCEPT !.files =
                        [q \in (DOMAIN f.files) \cup copied |->
                            IF q \in copied THEN f.files[source(q)] ELSE f.files[q]]]]

\* the documents found in manifest.json and metadata.json
ManifestJava == "{\"Language\": \"java\", \"Plugins\": [\"html-report\"]}"
ManifestNoLanguage == "{\"Plugins\": []}"
MetadataWithCmd ==
    "{\"name\": \"java\", \"postInstallCmd\": \"mvn -q test-compile\", \"postInstallMsg\": \"Run: gauge run specs\"}"
MetadataNoCmd == "{\"name\": \"java\", \"description\": \"plain\"}"
NotJSON == "{"

\* manifest.ProjectManifest(): the manifest of the project root
ProjectManifest(f) ==
    LET r == ReadFileContents(f, filepathJoin(ProjectRoot, ManifestFile)) IN
    IF r.err # nil THEN [err |-> "IOFailure", Language |-> ""]
    ELSE IF r.contents = ManifestJava THEN [err |-> nil, Language |-> "java"]
    ELSE IF r.contents = ManifestNoLanguage THEN [err |-> nil, Language |-> ""]
    ELSE [err |-> "ParseError", Language |-> ""]

\* json.Unmarshal into templateMetadata
Unmarshal(contents) ==
    IF contents = MetadataWithCmd
    THEN [err |-> nil,
          metadata |-> [PostInstallCmd |-> "mvn -q test-compile",
                        PostInstallMsg |-> "Run: gauge run specs"]]
    ELSE IF contents = MetadataNoCmd
    THEN [err |-> nil, metadata |-> [PostInstallCmd |-> "", PostInstallMsg |-> ""]]
    ELSE [err |-> "MetadataParseError",
          metadata |-> [PostInstallCmd |-> "", PostInstallMsg |-> ""]]

\* the archives behind a location or a zip file: relative path -> contents
TemplateFiles(metadata, gitignore) ==
    ("java/manifest.json" :> ManifestJava)
        @@ ("java/src/test/java/StepImpl.java" :> "class StepImpl {}")
        @@ ("java/specs/example.spec" :> "# Spec")
        @@ (IF metadata = "" THEN <<>> ELSE ("java/metadata.json" :> metadata))
        @@ (IF gitignore THEN ("java/.gitignore" :> "logs/\n") ELSE <<>>)

Archives ==
    {TemplateFiles(m, g) : m \in {MetadataWithCmd, MetadataNoCmd}, g \in BOOLEAN}
    \cup {TemplateFiles(NotJSON, TRUE), TemplateFiles("", TRUE)}
    \cup {("java/readme.md" :> "no manifest") @@ ("java/.gitignore" :> "logs/\n")}
    \cup {("java/manifest.json" :> NotJSON) @@ ("java/metadata.json" :> MetadataNoCmd)}
    \cup {("manifest.json" :> ManifestJava) @@ ("metadata.json" :> MetadataNoCmd)
            @@ ("sub/manifest.json" :> ManifestJava)
            @@ ("sub/metadata.json" :> MetadataWithCmd)}

\* common.UnzipArchive(archive, dest): the archive's files below dest
UnzipArchive(f, archive, dest) ==
    LET into == {filepathJoin(dest, rel) : rel \in DOMAIN archive} IN
    [f EXCEPT !.files =
        [q \in (DOMAIN f.files) \cup into |->
            IF q \in into THEN archive[SubSeq(q, Len(dest) + 2, Len(q))]
            ELSE f.files[q]]]

\* the project directories a call starts in
ProjectFiles(manifest, gitignore, src) ==
    (IF manifest = "" THEN <<>>
     ELSE (filepathJoin(ProjectRoot, ManifestFile) :> manifest))
        @@ (IF gitignore
            THEN (filepathJoin(ProjectRoot, gitignoreFileName) :> "*.log\n")
            ELSE <<>>)
        @@ (IF src
            THEN (filepathJoin(ProjectRoot, "src/Keep.java") :> "class Keep {}")
            ELSE <<>>)

ProjectDirs ==
    {[files |-> ProjectFiles(m, g, s), dirs |-> {ProjectRoot}] :
        m \in {"", ManifestJava, ManifestNoLanguage, NotJSON},
        g \in BOOLEAN, s \in BOOLEAN}

----------------------------------------------------------------------------
(* InitSpec: one run of FromTemplate, FromURL or FromZipFile               *)

Calls ==
    {[entry |-> "FromTemplate", arg |-> n] : n \in {"java", "pyhton"}}
    \cup {[entry |-> "FromURL", arg |-> u] :
            u \in {"https://example.com/t.zip", "http://example.com/t.zip", "not-a-url"}}
    \cup {[entry |-> "FromZipFile", arg |-> "/home/u/t.zip"]}

\* the config of a call by name: none, or one that points java at an http location
InitConfigs ==
    {Absent,
     Write(String(update(defaults(MaxVersion), "java", "http://example.com/j.zip", FALSE).t,
                  MaxVersion))}

InitInit ==
    /\ pc = "validateDirectory"
    /\ call \in Calls
    /\ allowInsecure \in BOOLEAN
    /\ fs \in ProjectDirs
    /\ file \in InitConfigs
    /\ call.entry # "FromTemplate" => file = Absent
    /\ start = [fs |-> fs, file |-> file]
    /\ loc = NoLoc
    /\ trace = <<>>
    /\ toolVersion = MaxVersion /\ ret = NoRet
    /\ lastUpdate = NoUpdates /\ upgraded = FALSE
    /\ SnapshotIdle

\* logger.Fatalf: the message is logged and the process exits, so no deferred
\* call of the running functions is made
Fatalf(kind) ==
    /\ pc' = "exit"
    /\ loc' = [loc EXCEPT !.fatal = kind]

isGaugeProject(f) ==
    LET m == ProjectManifest(f) IN
    IF m.err # nil THEN FALSE ELSE m.Language # ""

\* where an entry point goes on after validateDirectory()
AfterValidate ==
    IF call.entry = "FromTemplate" THEN "Get"
    ELSE IF call.entry = "FromURL" THEN "checkURL"
    ELSE "GetTempDir"

\* validateDirectory that accepts every directory
validateDirectoryNoCheck ==
    /\ pc = "validateDirectory"
    /\ trace' = Append(trace, "validateDirectory")
    /\ pc' = AfterValidate
    /\ loc' = [loc EXCEPT !.templateURL =
                    IF call.entry = "FromURL" THEN call.arg ELSE @]
    /\ UNCHANGED <<fs, ret>>

validateDirectory ==
    /\ pc = "validateDirectory"
    /\ trace' = Append(trace, "validateDirectory")
    /\ IF isGaugeProject(fs)
       THEN Fatalf("AlreadyAProject")
       ELSE /\ pc' = AfterValidate
            /\ loc' = [loc EXCEPT !.templateURL =
                            IF call.entry = "FromURL" THEN call.arg ELSE @]
    /\ UNCHANGED <<fs, ret>>

\* FromTemplate: template.Get(templateName)
resolveTemplate ==
    /\ pc = "Get"
    /\ trace' = Append(trace, "Get")
    /\ Get(call.arg)
    /\ IF ret'.err # nil
       THEN Fatalf(ret'.err)
       ELSE /\ pc' = "checkURL"
            /\ loc' = [loc EXCEPT !.templateURL = ret'.out]
    /\ UNCHANGED fs

\* checkURL that lets every scheme pass
checkURLAnyScheme ==
    /\ pc = "checkURL"
    /\ trace' = Append(trace, "checkURL")
    /\ IF ~ParseRequestURI(loc.templateURL).ok
       THEN Fatalf("InvalidTemplateLocation")
       ELSE pc' = "GetTempDir" /\ UNCHANGED loc
    /\ UNCHANGED <<fs, ret>>

checkURL ==
    /\ pc = "checkURL"
    /\ trace' = Append(trace, "checkURL")
    /\ LET u == ParseRequestURI(loc.templateURL) IN
       IF ~u.ok
       THEN Fatalf("InvalidTemplateLocation")
       ELSE IF u.Scheme # https /\ ~allowInsecure
       THEN Fatalf("InsecureDownloadRejected")
       ELSE pc' = "GetTempDir" /\ UNCHANGED loc
    /\ UNCHANGED <<fs, ret>>

\* common.GetTempDir(): a fresh, empty directory
GetTempDir ==
    /\ pc = "GetTempDir"
    /\ trace' = Append(trace, "GetTempDir")
    /\ fs' = [fs EXCEPT !.dirs = @ \cup {TempDir}]
    /\ loc' = [loc EXCEPT !.tempDir = TempDir]
    /\ pc' = IF call.entry = "FromZipFile" THEN "UnzipArchive" ELSE "DownloadAndUnzip"
    /\ UNCHANGED ret

\* the caller of copyTemplateContents going on as if it had returned no error
AfterCopyIgnoresError(err) ==
    IF call.entry = "FromZipFile"
    THEN "installRunner"
    ELSE "deferRemove"

\* where copyTemplateContents' caller goes on when it returned err
AfterCopy(err) ==
    IF call.entry = "FromZipFile"
    THEN IF err # nil THEN "Fatalf" ELSE "installRunner"
    ELSE "deferRemove"

\* initializeTemplate: util.DownloadAndUnzip(templateUrl, tempDir)
DownloadAndUnzip ==
    /\ pc = "DownloadAndUnzip"
    /\ trace' = Append(trace, "DownloadAndUnzip")
    /\ \/ /\ loc' = [loc EXCEPT !.err = "DownloadOrExtractFailed"]
          /\ pc' = "deferRemove"
          /\ UNCHANGED fs
       \/ \E archive \in Archives :
            /\ fs' = UnzipArchive(fs, archive, loc.tempDir)
            /\ loc' = [loc EXCEPT !.unzippedTemplate = loc.tempDir,
                                   !.archive = archive]
            /\ pc' = "getTemplateDir"
    /\ UNCHANGED ret

\* FromZipFile: common.UnzipArchive(templateFile, tempDir)
UnzipLocal ==
    /\ pc = "UnzipArchive"
    /\ trace' = Append(trace, "UnzipArchive")
    /\ \/ /\ Fatalf("DownloadOrExtractFailed")
          /\ UNCHANGED fs
       \/ \E archive \in Archives :
            /\ fs' = UnzipArchive(fs, archive, loc.tempDir)
            /\ loc' = [loc EXCEPT !.unzippedTemplate = loc.tempDir,
                                   !.archive = archive]
            /\ pc' = "getTemplateDir"
    /\ UNCHANGED ret

\* getTemplateDir: the last directory of the walk that holds the manifest, ""
\* when none does; an error only when the walk fails
getTemplateDir(f, unzippedTemplate) ==
    IF ~IsDir(f, unzippedTemplate)
    THEN [templateDir |-> "", err |-> "IOFailure"]
    ELSE LET holding == {d \in DirsBelow(f, unzippedTemplate) :
                            FileExists(f, filepathJoin(d, ManifestFile))}
         IN  [templateDir |->
                IF holding = {} THEN ""
                ELSE CHOOSE d \in holding : \A e \in holding : ~WalkLess(d, e),
              err |-> nil]

\* copyTemplateContents, first step: locate the template's directory
locateTemplate ==
    /\ pc = "getTemplateDir"
    /\ trace' = Append(trace, "getTemplateDir")
    /\ LET r == getTemplateDir(fs, loc.unzippedTemplate) IN
       IF r.err # nil
       THEN /\ loc' = [loc EXCEPT !.err = "MalformedTemplate"]
            /\ pc' = AfterCopy("MalformedTemplate")
       ELSE /\ loc' = [loc EXCEPT !.templateDir = r.templateDir]
            /\ pc' = "AppendToFile"
    /\ UNCHANGED <<fs, ret>>

\* copyTemplateContents: the project's .gitignore goes to the end of the
\* template's, which the mirror step then copies over the project's
appendGitignore ==
    /\ pc = "AppendToFile"
    /\ trace' = Append(trace, "AppendToFile")
    /\ IF FileExists(fs, gitignoreFileName)
       THEN LET a == AppendToFile(fs, gitignoreFileName,
                                  filepathJoin(loc.templateDir, gitignoreFileName))
            IN  IF a.err # nil
                THEN /\ loc' = [loc EXCEPT !.err = a.err]
                     /\ pc' = AfterCopy(a.err)
                     /\ UNCHANGED fs
                ELSE /\ fs' = a.fs
                     /\ pc' = "MirrorDir"
                     /\ UNCHANGED loc
       ELSE pc' = "MirrorDir" /\ UNCHANGED <<fs, loc>>
    /\ UNCHANGED ret

\* the number of files MirrorDir would copy from src
MirrorSize(f, src) ==
    IF src = "" \/ ~IsDir(f, src) THEN 0 ELSE Len(FilesBelow(f, src))

\* copyTemplateContents: common.MirrorDir(templateDir, wd)
mirror ==
    /\ pc = "MirrorDir"
    /\ trace' = Append(trace, "MirrorDir")
    /\ \E n \in 0..MirrorSize(fs, loc.templateDir) :
        LET m == MirrorDir(fs, loc.templateDir, ProjectRoot, n) IN
        /\ fs' = m.fs
        /\ IF m.err # nil
           THEN /\ loc' = [loc EXCEPT !.err = m.err]
                /\ pc' = AfterCopy(m.err)
           ELSE /\ loc' = [loc EXCEPT !.filesAdded = m.filesAdded]
                /\ pc' = "readMetadata"
    /\ UNCHANGED ret

\* copyTemplateContents: metadata.json of the project root is read and decoded
readMetadata ==
    /\ pc = "readMetadata"
    /\ trace' = Append(trace, "readMetadata")
    /\ LET r == ReadFileContents(fs, filepathJoin(ProjectRoot, metadataFileName))
           u == Unmarshal(r.contents)
       IN  IF r.err # nil
           THEN /\ loc' = [loc EXCEPT !.err = r.err]
                /\ pc' = AfterCopy(r.err)
           ELSE IF u.err # nil
           THEN /\ loc' = [loc EXCEPT !.err = u.err]
                /\ pc' = AfterCopy(u.err)
           ELSE /\ loc' = [loc EXCEPT !.metadata = u.metadata]
                /\ pc' = IF u.metadata.PostInstallCmd # ""
                         THEN "ExecuteSystemCommand" ELSE "cleanup"
    /\ UNCHANGED <<fs, ret>>

\* the rollback: the first segment of every added file is removed from wd
RECURSIVE RemoveAdded(_, _)
RemoveAdded(f, filesAdded) ==
    IF filesAdded = <<>> THEN f
    ELSE RemoveAdded(Remove(f, filepathJoin(ProjectRoot, FirstSegment(Head(filesAdded)))),
                     Tail(filesAdded))

\* postInstall that returns the launch's error without the rollback
postInstallNoRollback ==
    /\ pc = "ExecuteSystemCommand"
    /\ trace' = Append(trace, "ExecuteSystemCommand")
    /\ \/ /\ loc' = [loc EXCEPT !.post = "launchFailed", !.err = "PostInstallFailed"]
          /\ pc' = AfterCopy("PostInstallFailed")
       \/ /\ loc' = [loc EXCEPT !.post = "started"]
          /\ pc' = "Wait"
    /\ UNCHANGED <<fs, ret>>

\* copyTemplateContents: common.ExecuteSystemCommand starts the command
postInstall ==
    /\ pc = "ExecuteSystemCommand"
    /\ trace' = Append(trace, "ExecuteSystemCommand")
    /\ \/ /\ fs' = RemoveAdded(fs, loc.filesAdded)
          /\ loc' = [loc EXCEPT !.post = "launchFailed", !.err = "PostInstallFailed"]
          /\ pc' = AfterCopy("PostInstallFailed")
       \/ /\ loc' = [loc EXCEPT !.post = "started"]
          /\ pc' = "Wait"
          /\ UNCHANGED fs
    /\ UNCHANGED ret

\* copyTemplateContents: cmd.Wait()
wait ==
    /\ pc = "Wait"
    /\ trace' = Append(trace, "Wait")
    /\ \/ /\ loc' = [loc EXCEPT !.post = "exitNonZero", !.err = "PostInstallFailed"]
          /\ pc' = AfterCopy("PostInstallFailed")
       \/ /\ loc' = [loc EXCEPT !.post = "ok"]
          /\ pc' = "cleanup"
    /\ UNCHANGED <<fs, ret>>

\* copyTemplateContents: util.Remove(metadataFile); return nil
cleanup ==
    /\ pc = "cleanup"
    /\ trace' = Append(trace, "cleanup")
    /\ fs' = Remove(fs, filepathJoin(ProjectRoot, metadataFileName))
    /\ pc' = AfterCopy(nil)
    /\ UNCHANGED <<loc, ret>>

\* defer util.Remove(tempDir), run when the function that made tempDir returns
deferRemove ==
    /\ pc = "deferRemove"
    /\ trace' = Append(trace, "deferRemove")
    /\ fs' = Remove(fs, loc.tempDir)
    /\ pc' = IF call.entry = "FromZipFile" THEN "done"
             ELSE IF loc.err # nil THEN "Fatalf"
             ELSE "installRunner"
    /\ UNCHANGED <<loc, ret>>

\* the entry point's logger.Fatalf on the error it was returned
fatal ==
    /\ pc = "Fatalf"
    /\ trace' = Append(trace, "Fatalf")
    /\ Fatalf(loc.err)
    /\ UNCHANGED <<fs, ret>>

\* installRunner whose failures end the process
installRunnerFatal ==
    /\ pc = "installRunner"
    /\ trace' = Append(trace, "installRunner")
    /\ \E m \in {ProjectManifest(fs)} :
       IF m.err # nil
       THEN Fatalf("IOFailure")
       ELSE \E installed \in BOOLEAN, success \in BOOLEAN :
                IF installed \/ success
                THEN /\ loc' = [loc EXCEPT !.runner =
                                    IF installed THEN "present" ELSE "installed"]
                     /\ pc' = IF call.entry = "FromZipFile" THEN "deferRemove" ELSE "done"
                ELSE Fatalf("IOFailure")
    /\ UNCHANGED <<fs, ret>>

\* installRunner: whatever happens is logged
installRunner ==
    /\ pc = "installRunner"
    /\ trace' = Append(trace, "installRunner")
    /\ LET m == ProjectManifest(fs) IN
       IF m.err # nil
       THEN loc' = [loc EXCEPT !.runner = "manifestError"]
       ELSE \E installed \in BOOLEAN, success \in BOOLEAN :
                loc' = [loc EXCEPT !.runner =
                            IF installed THEN "present"
                            ELSE IF success THEN "installed" ELSE "installFailed"]
    /\ pc' = IF call.entry = "FromZipFile" THEN "deferRemove" ELSE "done"
    /\ UNCHANGED <<fs, ret>>

\* what no step of an entry point writes
InitFrame ==
    UNCHANGED <<call, allowInsecure, start, file, toolVersion, lastUpdate,
                upgraded, snapVars>>

InitNext ==
    \/ validateDirectory /\ InitFrame
    \/ resolveTemplate /\ InitFrame
    \/ checkURL /\ InitFrame
    \/ GetTempDir /\ InitFrame
    \/ DownloadAndUnzip /\ InitFrame
    \/ UnzipLocal /\ InitFrame
    \/ locateTemplate /\ InitFrame
    \/ appendGitignore /\ InitFrame
    \/ mirror /\ InitFrame
    \/ readMetadata /\ InitFrame
    \/ postInstall /\ InitFrame
    \/ wait /\ InitFrame
    \/ cleanup /\ InitFrame
    \/ deferRemove /\ InitFrame
    \/ fatal /\ InitFrame
    \/ installRunner /\ InitFrame

InitSpec == InitInit /\ [][InitNext]_vars

----------------------------------------------------------------------------
(* Claims about the registry                                               *)

\* key -> value, as the loader reads file f
Persisted(f) == GetGaugeConfigurationFor(f).configs

\* an absolute URI with a scheme and a non-empty authority
IsAbsoluteURI(v) ==
    LET s == getScheme(v) IN
    /\ ~s.err
    /\ s.scheme # ""
    /\ HasPrefix(s.rest, "//")
    /\ Len(s.rest) > 2
    /\ Char(s.rest, 3) # "/"

\* C6: update(key, value, true) fails for every value that is not an absolute
\* URI with a scheme and an authority, and a failed call leaves entries and
\* orderedNames as they were.
C6_NonAbsoluteRejected ==
    (snapRet.validate /\ ~IsAbsoluteURI(snapRet.v)) =>
        (snapRet.err # nil /\ snap = snapRet.before)

\* C7: Merge() leaves the file as it was when the recorded version is >= the
\* tool's; otherwise (lower version, no file, unparsable header) the file is
\* rewritten: it carries the tool's version and holds the merged snapshot,
\* that is every persisted pair and every default the file did not define.
C7_MergeVersionGate ==
    ret.op = "Merge" =>
        LET b == ret.before
            old == Persisted(b)
            new == Persisted(file)
        IN  IF b.exists /\ b.header.ok /\ b.header.v >= toolVersion
            THEN file = b
            ELSE /\ ret.err = nil
                 /\ file.exists /\ file.loadable
                 /\ file.header = [ok |-> TRUE, v |-> toolVersion]
                 /\ DOMAIN new = DOMAIN old \cup DefaultNames(toolVersion)
                 /\ \A k \in DOMAIN old : new[k] = old[k]
                 /\ \A k \in DefaultNames(toolVersion) \ DOMAIN old :
                        new[k] = defaults(toolVersion).t[k].Value

\* Merge was a no-op on a file that a newer build wrote
C7_Witness ==
    /\ ret.op = "Merge"
    /\ ret.before.exists /\ ret.before.header.ok
    /\ ret.before.header.v > toolVersion
    /\ file = ret.before

\* C8: once Update(k, v) has succeeded the persisted value of k is v until the
\* next successful Update of k, whatever Update, Merge and upgrades follow; and
\* after a Merge that follows an upgrade the file holds every built-in key.
C8_OverridesSurvive ==
    /\ \A k \in UpdateNames :
        lastUpdate[k].set =>
            /\ k \in DOMAIN Persisted(file)
            /\ Persisted(file)[k] = lastUpdate[k].v
    /\ (ret.op = "Merge" /\ upgraded) =>
            DefaultNames(toolVersion) \subseteq DOMAIN Persisted(file)

\* after Update(java, v) at an older build, an upgrade that changes java's
\* built-in location and adds ts, and a Merge that rewrote the file
C8_Witness ==
    /\ ret.op = "Merge" /\ upgraded
    /\ ret.before # file
    /\ lastUpdate["java"].set
    /\ "ts" \notin DOMAIN Persisted(ret.before)
    /\ defaults(toolVersion).t["java"].Value # lastUpdate["java"].v

SixDefaults == {"dotnet", "java", "js", "python", "ruby", "ts"}

\* C9: the snapshot of mergeTemplates() holds every built-in key (the six of the
\* source's build), also when the file is absent or cannot be loaded; a key the
\* file defines has the persisted value, a built-in key it does not define has
\* the built-in location.
C9_MergedSnapshot ==
    LET m == mergeTemplates(file, toolVersion)
        c == GetGaugeConfigurationFor(file)
        d == defaults(toolVersion)
    IN  /\ m.err = nil
        /\ DefaultNames(toolVersion) \subseteq DOMAIN m.t.t
        /\ toolVersion = MaxVersion => SixDefaults \subseteq DOMAIN m.t.t
        /\ \A k \in DOMAIN c.configs : m.t.t[k].Value = c.configs[k]
        /\ \A k \in DefaultNames(toolVersion) \ DOMAIN c.configs :
                m.t.t[k].Value = d.t[k].Value
        /\ (ret.op = "Get" /\ ret.name \in DOMAIN m.t.t) =>
                (ret.err = nil /\ ret.out = m.t.t[ret.name].Value)
        /\ ret.op = "All" => ret.out = Join(m.t.names, "\n")

\* Get(java) on a file that overrides java and lacks ts, which the running
\* build has built in
C9_Witness ==
    /\ ret.op = "Get" /\ ret.name = "java"
    /\ file.exists /\ file.loadable
    /\ toolVersion = MaxVersion
    /\ "ts" \notin DOMAIN Persisted(file)
    /\ "java" \in DOMAIN Persisted(file)
    /\ Persisted(file)["java"] # defaults(toolVersion).t["java"].Value
    /\ ret.out = Persisted(file)["java"]

\* C10: in every snapshot reached from defaults() by update calls, names is
\* strictly ascending (so without duplicates) and its elements are the keys of t.
C10_NamesSortedKeys ==
    /\ \A i, j \in 1..Len(snap.names) :
            i < j => StringLess(snap.names[i], snap.names[j])
    /\ {snap.names[i] : i \in 1..Len(snap.names)} = DOMAIN snap.t

\* two keys were added in front of and between the built-in ones, and the last
\* call failed its validation
C10_Witness ==
    /\ "aa" \in DOMAIN snap.t
    /\ "go" \in DOMAIN snap.t
    /\ snapRet.err # nil

\* C11: update(k, v, true) with an absolute URI v returns no error, and get(k)
\* returns the value of the last successful update of k, new key or not, until
\* the next successful update of k.
C11_UpdateGetRoundTrip ==
    /\ (snapRet.validate /\ IsAbsoluteURI(snapRet.v)) => snapRet.err = nil
    /\ \A k \in SnapKeys :
            snapLast[k].set =>
                /\ get(snap, k).err = nil
                /\ get(snap, k).value = snapLast[k].v

\* a validated update set a new key and one set a built-in key, each to an
\* absolute URI, and a later update of another key failed
C11_Witness ==
    /\ snapLast["go"].set /\ IsAbsoluteURI(snapLast["go"].v)
    /\ snapLast["java"].set /\ IsAbsoluteURI(snapLast["java"].v)
    /\ snapLast["java"].v # snapLast["go"].v
    /\ snapRet.k = "aa" /\ snapRet.validate /\ snapRet.err # nil
    /\ "go" \notin DOMAIN defaults(MaxVersion).t

\* C12: Get of a name the registry does not hold returns no value and the
\* not-found error; the names the error suggests are at most five, none is
\* empty, they are keys of the registry in strictly ascending order, and the
\* error's text lists names exactly when there are some.
C12_MissSuggestions ==
    LET m == mergeTemplates(file, toolVersion)
        n == Len(ret.matches)
    IN  (ret.op = "Get" /\ ret.name \notin DOMAIN m.t.t) =>
            /\ ret.err = "TemplateNotFound"
            /\ ret.out = ""
            /\ n <= 5
            /\ \A i \in 1..n :
                    ret.matches[i] # "" /\ ret.matches[i] \in DOMAIN m.t.t
            /\ \A i, j \in 1..n :
                    i < j => StringLess(ret.matches[i], ret.matches[j])
            /\ ret.msg = IF n = 0
                         THEN "cannot find a Gauge template '" \o ret.name \o "'"
                         ELSE "cannot find a Gauge template '" \o ret.name
                                \o "'.\nThe most similar template names are\n\n\t"
                                \o Join(ret.matches, "\n\t")

\* Get of a name that shares substrings with six built-in names: five are
\* suggested, and of the two with the lowest score python is the one left out
C12_Witness ==
    /\ ret.op = "Get" /\ ret.name = "tsjsjarupydo"
    /\ ret.err = "TemplateNotFound"
    /\ Len(ret.matches) = 5
    /\ \A i \in 1..5 : ret.matches[i] # "python"
    /\ "python" \in DOMAIN mergeTemplates(file, toolVersion).t.t

\* the calls that only read the registry
ReadingCalls == {"Get", "All", "List"}

\* C18: Get, All and List leave the persisted file as it was, in existence and
\* in content, also when it is absent or was written by an older build; a
\* call after which the file differs is an Update or a Merge.
C18_ReadsDoNotWrite ==
    /\ ret.op \in ReadingCalls => file = ret.before
    /\ (ret.op # "none" /\ file # ret.before) => ret.op \in {"Update", "Merge"}

\* Get found a name in a file an older build wrote, which a Merge would have
\* rewritten, and the file is as it was
C18_Witness ==
    /\ ret.op = "Get" /\ ret.err = nil /\ ret.out # ""
    /\ ret.before.exists /\ ret.before.header.ok
    /\ CompareVersionsLesser(ret.before.header.v, toolVersion)
    /\ file = ret.before

\* C19: an Update that returned the error of the location's validation has
\* left the persisted file as it was, in existence and in content.
C19_FailedUpdateDoesNotWrite ==
    (ret.op = "Update" /\ ret.err = "InvalidTemplateLocation") =>
        file = ret.before

\* Update was refused a location that is no URI, on a file that did not exist,
\* and the file still does not exist
C19_Witness ==
    /\ ret.op = "Update" /\ ret.err = "InvalidTemplateLocation"
    /\ ret.value = "not-a-url"
    /\ ~ret.before.exists
    /\ file = ret.before

----------------------------------------------------------------------------
(* Claims about the initialisation                                         *)

HasStep(name) == \E i \in 1..Len(trace) : trace[i] = name

\* the files of the project directory
ProjectPart(f) ==
    [q \in {x \in DOMAIN f.files : Under(x, ProjectRoot)} |-> f.files[q]]

HasSuffix(s, suffix) ==
    Len(s) >= Len(suffix) /\ SubSeq(s, Len(s) - Len(suffix) + 1, Len(s)) = suffix

\* no directory of the archive holds the manifest
NoManifest(archive) ==
    \A q \in DOMAIN archive :
        q # ManifestFile /\ ~HasSuffix(q, "/" \o ManifestFile)

\* C1: when the post-install command fails, at its launch or with a non-zero
\* exit, the first path segment of every entry MirrorDir recorded is gone from
\* the project directory when copyTemplateContents returns its error.
C1_RollbackOnCommandFailure ==
    loc.post \in {"launchFailed", "exitNonZero"} =>
        \A i \in 1..Len(loc.filesAdded) :
            ~FileExists(fs, filepathJoin(ProjectRoot, FirstSegment(loc.filesAdded[i])))

\* C2: when no directory of the extracted archive holds the manifest, the
\* initialisation fails with MalformedTemplate once the template's directory
\* was looked for, and the project directory is as it was.
C2_NoManifestIsMalformed ==
    (HasStep("getTemplateDir") /\ NoManifest(loc.archive)) =>
        /\ loc.err = "MalformedTemplate"
        /\ ProjectPart(fs) = ProjectPart(start.fs)

\* C3: when the invocation has ended, by returning or by the fatal exit, the
\* temporary directory of the call does not exist.
C3_TempDirRemoved ==
    pc \in {"done", "exit"} => ~FileExists(fs, TempDir)

\* C4: when the working directory is a recognised project, the call ends with
\* AlreadyAProject and the project directory, the temporary area and the
\* persisted config are as they were.
C4_AlreadyAProject ==
    LET m == ReadFileContents(start.fs, filepathJoin(ProjectRoot, ManifestFile)) IN
    (m.err = nil /\ m.contents = ManifestJava) =>
        /\ pc \in {"validateDirectory", "exit"}
        /\ pc = "exit" => loc.fatal = "AlreadyAProject"
        /\ fs = start.fs
        /\ file = start.file

\* FromZipFile ended with AlreadyAProject
C4_Witness ==
    /\ call.entry = "FromZipFile"
    /\ pc = "exit"
    /\ loc.fatal = "AlreadyAProject"
    /\ trace = <<"validateDirectory">>

\* C5: in FromTemplate and FromURL a location that parses and whose scheme is
\* not https ends the call with InsecureDownloadRejected, before any temporary
\* directory or download, when AllowInsecureDownload() is false; when it is
\* true the location passes checkURL and the call goes on to the fetch.
C5_InsecureDownload ==
    LET u == ParseRequestURI(loc.templateURL) IN
    (HasStep("checkURL") /\ u.ok /\ u.Scheme # "https") =>
        IF allowInsecure
        THEN /\ loc.fatal \notin {"InsecureDownloadRejected", "InvalidTemplateLocation"}
             /\ pc = "GetTempDir" \/ HasStep("GetTempDir")
             /\ pc = "DownloadAndUnzip" \/ HasStep("DownloadAndUnzip")
                    \/ pc = "GetTempDir"
        ELSE /\ pc = "exit"
             /\ loc.fatal = "InsecureDownloadRejected"
             /\ trace[Len(trace)] = "checkURL"
             /\ ~HasStep("GetTempDir") /\ ~HasStep("DownloadAndUnzip")
             /\ fs = start.fs

\* an http location of the config passed checkURL and was downloaded
C5_Witness ==
    /\ allowInsecure
    /\ call.entry = "FromTemplate"
    /\ ParseRequestURI(loc.templateURL).Scheme = "http"
    /\ HasStep("checkURL")
    /\ HasStep("DownloadAndUnzip")

MetadataFile == filepathJoin(ProjectRoot, metadataFileName)

\* C14 as stated: when the post-install command fails, the cleanup step is not
\* run and the metadata file is still in the project directory.
C14_MetadataKeptOnFailure ==
    loc.post \in {"launchFailed", "exitNonZero"} =>
        /\ ~HasStep("cleanup")
        /\ FileExists(fs, MetadataFile)

\* C14 amended: when the post-install command fails, the cleanup step is not
\* run; the metadata file is still in the project directory, as the template
\* had it, after a non-zero exit, and the rollback has removed it with the
\* other mirrored entries after a launch failure.
C14_MetadataKeptUnlessRolledBack ==
    loc.post \in {"launchFailed", "exitNonZero"} =>
        /\ ~HasStep("cleanup")
        /\ loc.post = "exitNonZero" =>
                /\ FileExists(fs, MetadataFile)
                /\ fs.files[MetadataFile] = MetadataWithCmd
        /\ loc.post = "launchFailed" => ~FileExists(fs, MetadataFile)

\* the command could not be launched, the call ended with its error, and the
\* metadata file that was mirrored is gone
C14_Witness ==
    /\ loc.post = "launchFailed"
    /\ pc = "exit"
    /\ HasStep("MirrorDir") /\ HasStep("readMetadata")
    /\ ~FileExists(fs, MetadataFile)

GitignoreFile == filepathJoin(ProjectRoot, gitignoreFileName)

\* the .gitignore of the template's directory, as the archive holds it
TemplateGitignore ==
    LET dir == IF loc.templateDir = loc.unzippedTemplate THEN ""
               ELSE SubSeq(loc.templateDir, Len(loc.unzippedTemplate) + 2,
                           Len(loc.templateDir))
    IN  loc.archive[filepathJoin(dir, gitignoreFileName)]

\* the call ended as successful in a project that had a .gitignore
SucceededWithGitignore ==
    /\ pc = "done"
    /\ loc.fatal = nil
    /\ GitignoreFile \in DOMAIN start.fs.files

\* C15 as stated: after a successful initialisation of a project that had a
\* .gitignore, the file holds the original content followed by the template's.
C15_GitignoreOriginalThenTemplate ==
    SucceededWithGitignore =>
        /\ GitignoreFile \in DOMAIN fs.files
        /\ fs.files[GitignoreFile] = start.fs.files[GitignoreFile] \o TemplateGitignore

\* C15 amended: after a successful initialisation of a project that had a
\* .gitignore, the file holds the template's content followed by the original
\* content: the original was written to the end of the template's file, which
\* the mirror step copied over the project's.
C15_GitignoreTemplateThenOriginal ==
    SucceededWithGitignore =>
        /\ GitignoreFile \in DOMAIN fs.files
        /\ fs.files[GitignoreFile] = TemplateGitignore \o start.fs.files[GitignoreFile]
        /\ HasStep("AppendToFile") /\ HasStep("MirrorDir")

\* a project with a .gitignore of its own was initialised from a template that
\* has one
C15_Witness ==
    /\ SucceededWithGitignore
    /\ start.fs.files[GitignoreFile] = "*.log\n"
    /\ fs.files[GitignoreFile] = "logs/\n*.log\n"

\* the place of a step in the run, 0 when it was not made
Pos(name) ==
    IF HasStep(name) THEN CHOOSE i \in 1..Len(trace) : trace[i] = name ELSE 0

\* step b was made only after step a
Before(a, b) == HasStep(b) => (HasStep(a) /\ Pos(a) < Pos(b))

\* the steps that fetch or extract the template
FetchSteps == {"GetTempDir", "DownloadAndUnzip", "UnzipArchive"}

\* the steps of copyTemplateContents
CopySteps == {"getTemplateDir", "AppendToFile", "MirrorDir", "readMetadata",
              "ExecuteSystemCommand", "Wait", "cleanup"}

\* the location passes checkURL
URLPasses(location) ==
    /\ ParseRequestURI(location).ok
    /\ ParseRequestURI(location).Scheme = https \/ allowInsecure

\* C16: the steps of an initialisation run in order and stop at the first
\* failure: nothing is fetched or extracted before the directory (and, for
\* FromTemplate and FromURL, the location) passed validation; the project
\* directory is as it was until the fetch and the extraction succeeded; the
\* post-install command runs only after the mirror step and a parsed
\* metadata file; installRunner runs only after copyTemplateContents returned
\* no error; FromZipFile validates no location and downloads nothing.
C16_StepsInOrder ==
    /\ \A s \in FetchSteps \cup CopySteps :
            /\ Before("validateDirectory", s)
            /\ HasStep(s) => ~isGaugeProject(start.fs)
    /\ call.entry \in {"FromTemplate", "FromURL"} =>
            /\ \A s \in FetchSteps \cup CopySteps : Before("checkURL", s)
            /\ HasStep("GetTempDir") => URLPasses(loc.templateURL)
            /\ ~HasStep("UnzipArchive")
    /\ call.entry = "FromTemplate" => Before("Get", "checkURL")
    /\ call.entry = "FromZipFile" =>
            /\ ~HasStep("checkURL") /\ ~HasStep("Get")
            /\ ~HasStep("DownloadAndUnzip")
    /\ \A s \in CopySteps :
            HasStep(s) =>
                /\ loc.unzippedTemplate # ""
                /\ IF call.entry = "FromZipFile"
                   THEN Pos("UnzipArchive") > 0 /\ Pos("UnzipArchive") < Pos(s)
                   ELSE Pos("DownloadAndUnzip") > 0 /\ Pos("DownloadAndUnzip") < Pos(s)
    /\ ProjectPart(fs) # ProjectPart(start.fs) =>
            /\ HasStep("getTemplateDir")
            /\ loc.unzippedTemplate # ""
    /\ HasStep("ExecuteSystemCommand") =>
            /\ Before("MirrorDir", "readMetadata")
            /\ Before("readMetadata", "ExecuteSystemCommand")
            /\ loc.metadata.PostInstallCmd # ""
    /\ Before("ExecuteSystemCommand", "Wait")
    /\ HasStep("installRunner") =>
            /\ loc.err = nil /\ loc.fatal = nil
            /\ Before("cleanup", "installRunner")
    /\ loc.err # nil =>
            /\ pc \in {"deferRemove", "Fatalf", "exit"}
            /\ ~HasStep("cleanup") /\ ~HasStep("installRunner")
    /\ loc.fatal # nil => pc = "exit"

\* a run from a template by name that stopped at a metadata file that does
\* not parse: the command and the runner installation were not reached
C16_Witness ==
    /\ call.entry = "FromTemplate"
    /\ pc = "exit"
    /\ loc.fatal # nil /\ loc.err = loc.fatal
    /\ trace = <<"validateDirectory", "Get", "checkURL", "GetTempDir",
                 "DownloadAndUnzip", "getTemplateDir", "AppendToFile",
                 "MirrorDir", "readMetadata", "deferRemove", "Fatalf">>
    /\ ProjectPart(fs) # ProjectPart(start.fs)

\* C17: after the rollback that follows a post-install command that could not
\* be launched, every file and directory the project directory held before
\* the initialisation started is still there, with the content it had.
C17_RollbackKeepsExisting ==
    loc.post = "launchFailed" =>
        /\ \A q \in DOMAIN ProjectPart(start.fs) :
                /\ q \in DOMAIN fs.files
                /\ fs.files[q] = start.fs.files[q]
        /\ \A d \in start.fs.dirs : Under(d, ProjectRoot) => d \in fs.dirs

=============================================================================
